---- MODULE Spec2Model ----
(***************************************************************************)
(* A model of mt::ThreadSafeStack (src/ThreadSafeStack.h): a std::stack of  *)
(* std::shared_ptr<AdaptElem> guarded by one std::mutex, with a             *)
(* std::condition_variable for the blocking removals.                       *)
(*                                                                          *)
(* Every member function is split at the points where other threads can     *)
(* interleave: the call, each acquisition of a mutex, the work done under   *)
(* the lock, the notification.  A std::shared_ptr is modelled by the index  *)
(* of its control block in `heap`; two handles are the same Slot exactly    *)
(* when they carry the same index.                                          *)
(***************************************************************************)
EXTENDS Integers, Sequences, FiniteSets, TLC

\* ------------------------------------------------------------------ bounds
\* Number of elements that are ever created in one behaviour.
MaxPush == 3
\* Number of calls thread 1 may start when the threads share one stack.
MaxOps == 2
\* Number of calls thread 1 may start under the general specification.
MaxCalls == 1

\* ------------------------------------------------------- fixed vocabulary
Threads == {1, 2, 3}
\* Stacks 1 and 2 exist from the start; stack 3 is the object a copy or move
\* constructor builds.
Stacks == {1, 2, 3}
NewStack == 3

\* m_mutex value of an unlocked mutex.
Free == 0
\* An empty std::shared_ptr.
NullPtr == 0
\* The value an element is left with after std::move took its contents.
MovedFrom == 0
\* A heap cell whose last owner is gone.
Freed == -1
\* The caller's output location before the callee has assigned to it.
Untouched == -2

VARIABLES
    m_stack,    \* [Stacks -> Seq(slot)]: the std::stack, top = last element
    m_mutex,    \* [Stacks -> Threads \cup {Free}]: owner of each std::mutex
    m_condVar,  \* [Stacks -> SUBSET Threads]: threads blocked in wait()
    heap,       \* Seq(value): heap[k] is the AdaptElem owned by control block k
    alive,      \* the stacks that have been constructed
    nextVal,    \* the value the next push call passes in
    pc,         \* [Threads -> label]: where each thread is
    cur,        \* [Threads -> call record]: the call in progress
    data,       \* [Threads -> slot]: the callee's local shared_ptr (data / res)
    out,        \* [Threads -> value]: the caller's AdaptElem& location
    ret,        \* [Threads -> outcome record] of the thread's last finished call
    opsLeft,    \* [Threads -> Nat]: calls the thread may still start
    hist        \* history: the pushes and removals in the order they took place

vars == <<m_stack, m_mutex, m_condVar, heap, alive, nextVal,
          pc, cur, data, out, ret, opsLeft, hist>>

Forms == {"ref", "ptr"}

NoCall == [fn |-> "none", self |-> 0, rhs |-> 0, form |-> "none", elem |-> 0,
           first |-> 0, i |-> 0]
NoRet == [status |-> "none", slot |-> NullPtr]

Call(fn, s, r, form, elem) ==
    [fn |-> fn, self |-> s, rhs |-> r, form |-> form, elem |-> elem,
     first |-> s, i |-> 0]

\* The history record of a push that took place; `asleep` are the threads
\* blocked in wait() on the stack at that instant.
PushEvent(t, s, k, v, w) ==
    [ev |-> "push", t |-> t, stack |-> s, slot |-> k, val |-> v, fn |-> "push",
     form |-> "none", asleep |-> w]

\* ----------------------------------------------------------- std helpers
\* m_stack.empty()
Empty(s) == m_stack[s] = <<>>
\* (faulty variant) the element at the other end of the sequence
TopFront(s) == m_stack[s][1]
\* m_stack.top()
Top(s) == m_stack[s][Len(m_stack[s])]
\* (faulty variant) pop() that leaves the element in place
PoppedNothing(s) == m_stack[s]
\* the sequence after m_stack.pop()
Popped(s) == SubSeq(m_stack[s], 1, Len(m_stack[s]) - 1)

\* Number of handles to slot k held by the sequences of all stacks.
RECURSIVE CountIn(_, _)
CountIn(seq, k) ==
    IF seq = <<>> THEN 0
    ELSE (IF Head(seq) = k THEN 1 ELSE 0) + CountIn(Tail(seq), k)

RECURSIVE SumOver(_, _)
SumOver(S, k) ==
    IF S = {} THEN 0
    ELSE LET s == CHOOSE x \in S : TRUE
         IN CountIn(m_stack[s], k) + SumOver(S \ {s}, k)

\* Handles to slot k that callers received from the handle-returning forms.
HandedOut(k) ==
    \E i \in 1..Len(hist) :
        hist[i].ev = "rm" /\ hist[i].form = "ptr" /\ hist[i].slot = k

\* use_count() > 1 as seen by the holder of one handle inside a sequence.
Shared(k) == SumOver(Stacks, k) > 1 \/ HandedOut(k)

\* ------------------------------------------------------------------- Init
InitState ==
    /\ m_stack = [s \in Stacks |-> <<>>]
    /\ m_mutex = [s \in Stacks |-> Free]
    /\ m_condVar = [s \in Stacks |-> {}]
    /\ heap = <<>>
    /\ alive = Stacks \ {NewStack}
    /\ nextVal = 1
    /\ pc = [t \in Threads |-> "idle"]
    /\ cur = [t \in Threads |-> NoCall]
    /\ data = [t \in Threads |-> NullPtr]
    /\ out = [t \in Threads |-> Untouched]
    /\ ret = [t \in Threads |-> NoRet]
    /\ hist = <<>>

\* A call returns (or throws): the thread is idle again and holds `r`.
Return(t, r) ==
    /\ pc' = [pc EXCEPT ![t] = "idle"]
    /\ ret' = [ret EXCEPT ![t] = r]

\* A thread starts the call c.
Begin(t, c, label) ==
    /\ pc[t] = "idle"
    /\ opsLeft[t] > 0
    /\ opsLeft' = [opsLeft EXCEPT ![t] = @ - 1]
    /\ cur' = [cur EXCEPT ![t] = c]
    /\ pc' = [pc EXCEPT ![t] = label]
    /\ ret' = [ret EXCEPT ![t] = NoRet]
    /\ out' = [out EXCEPT ![t] = Untouched]
    /\ data' = [data EXCEPT ![t] = NullPtr]

\* std::lock_guard / std::unique_lock constructor: blocks until the mutex is free.
Acquire(t, s) ==
    /\ m_mutex[s] = Free
    /\ m_mutex' = [m_mutex EXCEPT ![s] = t]

\* -------------------------------------------------------------------- push
PushCall(t, s) ==
    /\ s \in alive
    /\ nextVal <= MaxPush
    /\ Begin(t, Call("push", s, 0, "none", nextVal), "push_alloc")
    /\ nextVal' = nextVal + 1
    /\ UNCHANGED <<m_stack, m_mutex, m_condVar, heap, alive, hist>>

\* std::make_shared<AdaptElem>(std::move(elem)) succeeds.
PushAlloc(t) ==
    /\ pc[t] = "push_alloc"
    /\ heap' = Append(heap, cur[t].elem)
    /\ data' = [data EXCEPT ![t] = Len(heap) + 1]
    /\ pc' = [pc EXCEPT ![t] = "push_lock"]
    /\ UNCHANGED <<m_stack, m_mutex, m_condVar, alive, nextVal, cur, out, ret,
                   opsLeft, hist>>

\* (faulty variant) a failing push that still signals the condition variable
PushAllocFailNotifies(t) ==
    LET s == cur[t].self IN
    /\ pc[t] = "push_alloc"
    /\ ret' = [ret EXCEPT ![t] = [status |-> "AllocationFailure", slot |-> NullPtr]]
    /\ pc' = [u \in Threads |-> IF u = t THEN "idle"
                                ELSE IF u \in m_condVar[s] THEN "wap_relock"
                                ELSE pc[u]]
    /\ m_condVar' = [m_condVar EXCEPT ![s] = {}]
    /\ UNCHANGED <<m_stack, m_mutex, heap, alive, nextVal, cur, data,
                   out, opsLeft, hist>>

\* std::make_shared throws: nothing else of push runs.
PushAllocFail(t) ==
    /\ pc[t] = "push_alloc"
    /\ Return(t, [status |-> "AllocationFailure", slot |-> NullPtr])
    /\ UNCHANGED <<m_stack, m_mutex, m_condVar, heap, alive, nextVal, cur, data,
                   out, opsLeft, hist>>

PushLock(t) ==
    /\ pc[t] = "push_lock"
    /\ Acquire(t, cur[t].self)
    /\ pc' = [pc EXCEPT ![t] = "push_body"]
    /\ UNCHANGED <<m_stack, m_condVar, heap, alive, nextVal, cur, data, out, ret,
                   opsLeft, hist>>

\* m_stack.push(std::move(data)); the lock_guard's scope ends.
PushBody(t) ==
    LET s == cur[t].self IN
    /\ pc[t] = "push_body"
    /\ m_stack' = [m_stack EXCEPT ![s] = Append(@, data[t])]
    /\ m_mutex' = [m_mutex EXCEPT ![s] = Free]
    /\ hist' = Append(hist, PushEvent(t, s, data[t], heap[data[t]], m_condVar[s]))
    /\ data' = [data EXCEPT ![t] = NullPtr]
    /\ pc' = [pc EXCEPT ![t] = "push_notify"]
    /\ UNCHANGED <<m_condVar, heap, alive, nextVal, cur, out, ret, opsLeft>>

\* (faulty variant) push that returns without notifying anybody
PushNotifyNobody(t) ==
    /\ pc[t] = "push_notify"
    /\ Return(t, [status |-> "void", slot |-> NullPtr])
    /\ UNCHANGED <<m_stack, m_mutex, m_condVar, heap, alive, nextVal, cur, data,
                   out, opsLeft, hist>>

\* m_condVar.notify_one(): one thread blocked in wait(), if there is any, is
\* unblocked; it still has to reacquire the mutex.
PushNotify(t) ==
    LET s == cur[t].self IN
    /\ pc[t] = "push_notify"
    /\ \/ /\ m_condVar[s] = {}
          /\ Return(t, [status |-> "void", slot |-> NullPtr])
          /\ UNCHANGED m_condVar
       \/ \E w \in m_condVar[s] :
            /\ m_condVar' = [m_condVar EXCEPT ![s] = @ \ {w}]
            /\ pc' = [pc EXCEPT ![t] = "idle", ![w] = "wap_relock"]
            /\ ret' = [ret EXCEPT ![t] = [status |-> "void", slot |-> NullPtr]]
    /\ UNCHANGED <<m_stack, m_mutex, heap, alive, nextVal, cur, data, out,
                   opsLeft, hist>>

\* m_stack.push throws (the container could not grow): std::stack::push leaves
\* the sequence as it was, the lock_guard unlocks, `data` is destroyed and
\* notify_one is not reached.
PushBodyFail(t) ==
    LET s == cur[t].self IN
    /\ pc[t] = "push_body"
    /\ m_mutex' = [m_mutex EXCEPT ![s] = Free]
    /\ heap' = [heap EXCEPT ![data[t]] = Freed]
    /\ data' = [data EXCEPT ![t] = NullPtr]
    /\ Return(t, [status |-> "AllocationFailure", slot |-> NullPtr])
    /\ UNCHANGED <<m_stack, m_condVar, alive, nextVal, cur, out, opsLeft, hist>>

\* ------------------------------------------------- the removal step proper
RmEvent(t, s, k) ==
    [ev |-> "rm", t |-> t, stack |-> s, slot |-> k, val |-> heap[k],
     fn |-> cur[t].fn, form |-> cur[t].form, asleep |-> {}]

\* The value left in *top after `elem = std::move(*m_stack.top())`.  When the
\* popped handle was the only owner the element is destroyed with it; otherwise
\* the element lives on, either untouched (a trivially movable AdaptElem) or
\* emptied by the move.
AfterMove(k) ==
    IF Shared(k) THEN {heap[k], MovedFrom} ELSE {Freed}

\* std::shared_ptr<AdaptElem> res = std::move(m_stack.top()); m_stack.pop();
\* return res;   (the lock is released on the way out)
TakePtr(t, status) ==
    LET s == cur[t].self
        k == Top(s)
    IN /\ m_stack' = [m_stack EXCEPT ![s] = Popped(s)]
       /\ m_mutex' = [m_mutex EXCEPT ![s] = Free]
       /\ hist' = Append(hist, RmEvent(t, s, k))
       /\ data' = [data EXCEPT ![t] = k]
       /\ Return(t, [status |-> status, slot |-> k])
       /\ UNCHANGED <<heap, out>>

\* elem = std::move(*m_stack.top()); m_stack.pop();
TakeRef(t, status) ==
    LET s == cur[t].self
        k == Top(s)
    IN /\ out' = [out EXCEPT ![t] = heap[k]]
       /\ \E v \in AfterMove(k) : heap' = [heap EXCEPT ![k] = v]
       /\ m_stack' = [m_stack EXCEPT ![s] = Popped(s)]
       /\ m_mutex' = [m_mutex EXCEPT ![s] = Free]
       /\ hist' = Append(hist, RmEvent(t, s, k))
       /\ Return(t, [status |-> status, slot |-> NullPtr])
       /\ UNCHANGED data

\* elem = std::move(*m_stack.top()) throws: AdaptElem's move assignment is the
\* element type's own and is not required to be noexcept.  m_stack.pop() is not
\* reached and the lock is released by unwinding; the assignment may have got
\* anywhere before it threw, so both the stored element and the caller's
\* location are either as before or already changed.
TakeRefThrows(t) ==
    LET s == cur[t].self
        k == Top(s)
    IN /\ pc[t] \in {"wap_take", "try_take", "pop_take"}
       /\ cur[t].form = "ref"
       /\ \E v \in {heap[k], MovedFrom} : heap' = [heap EXCEPT ![k] = v]
       /\ \E o \in {Untouched, heap[k]} : out' = [out EXCEPT ![t] = o]
       /\ m_mutex' = [m_mutex EXCEPT ![s] = Free]
       /\ Return(t, [status |-> "ElementFailure", slot |-> NullPtr])
       /\ UNCHANGED <<m_stack, m_condVar, alive, nextVal, cur, data, opsLeft,
                      hist>>

\* -------------------------------------------------------------- waitAndPop
WaitAndPopCall(t, s, form) ==
    /\ s \in alive
    /\ Begin(t, Call("waitAndPop", s, 0, form, 0), "wap_lock")
    /\ UNCHANGED <<m_stack, m_mutex, m_condVar, heap, alive, nextVal, hist>>

\* (faulty variant) wait(lock) without the predicate: a woken thread goes on
\* to the removal without looking at the sequence again
WaitAndPopLockNoRecheck(t) ==
    /\ pc[t] \in {"wap_lock", "wap_relock"}
    /\ Acquire(t, cur[t].self)
    /\ pc' = [pc EXCEPT ![t] = IF pc[t] = "wap_relock" THEN "wap_take" ELSE "wap_wait"]
    /\ UNCHANGED <<m_stack, m_condVar, heap, alive, nextVal, cur, data, out, ret,
                   opsLeft, hist>>

\* std::unique_lock<std::mutex> lock(m_mutex), and the reacquisition of the
\* mutex by a thread that wait() has unblocked.
WaitAndPopLock(t) ==
    /\ pc[t] \in {"wap_lock", "wap_relock"}
    /\ Acquire(t, cur[t].self)
    /\ pc' = [pc EXCEPT ![t] = "wap_wait"]
    /\ UNCHANGED <<m_stack, m_condVar, heap, alive, nextVal, cur, data, out, ret,
                   opsLeft, hist>>

\* (faulty variant) a wait that blocks without releasing the mutex
WaitAndPopWaitKeepsLock(t) ==
    LET s == cur[t].self IN
    /\ pc[t] = "wap_wait"
    /\ IF Empty(s)
       THEN /\ m_condVar' = [m_condVar EXCEPT ![s] = @ \cup {t}]
            /\ pc' = [pc EXCEPT ![t] = "wap_asleep"]
       ELSE /\ pc' = [pc EXCEPT ![t] = "wap_take"]
            /\ UNCHANGED m_condVar
    /\ UNCHANGED <<m_stack, m_mutex, heap, alive, nextVal, cur, data, out, ret,
                   opsLeft, hist>>

\* m_condVar.wait(lock, pred): while (!pred()) wait(lock).  With the predicate
\* false the thread releases the mutex and blocks, in one atomic step.
WaitAndPopWait(t) ==
    LET s == cur[t].self IN
    /\ pc[t] = "wap_wait"
    /\ IF Empty(s)
       THEN /\ m_mutex' = [m_mutex EXCEPT ![s] = Free]
            /\ m_condVar' = [m_condVar EXCEPT ![s] = @ \cup {t}]
            /\ pc' = [pc EXCEPT ![t] = "wap_asleep"]
       ELSE /\ pc' = [pc EXCEPT ![t] = "wap_take"]
            /\ UNCHANGED <<m_mutex, m_condVar>>
    /\ UNCHANGED <<m_stack, heap, alive, nextVal, cur, data, out, ret, opsLeft,
                   hist>>

\* A spurious wakeup: wait() unblocks without a notification.
SpuriousWake(t) ==
    LET s == cur[t].self IN
    /\ pc[t] = "wap_asleep"
    /\ m_condVar' = [m_condVar EXCEPT ![s] = @ \ {t}]
    /\ pc' = [pc EXCEPT ![t] = "wap_relock"]
    /\ UNCHANGED <<m_stack, m_mutex, heap, alive, nextVal, cur, data, out, ret,
                   opsLeft, hist>>

WaitAndPopTake(t) ==
    /\ pc[t] = "wap_take"
    /\ IF cur[t].form = "ref" THEN TakeRef(t, "void") ELSE TakePtr(t, "ptr")
    /\ UNCHANGED <<m_condVar, alive, nextVal, cur, opsLeft>>

\* ------------------------------------------------------------------ tryPop
TryPopCall(t, s, form) ==
    /\ s \in alive
    /\ Begin(t, Call("tryPop", s, 0, form, 0), "try_lock")
    /\ UNCHANGED <<m_stack, m_mutex, m_condVar, heap, alive, nextVal, hist>>

TryPopLock(t) ==
    /\ pc[t] = "try_lock"
    /\ Acquire(t, cur[t].self)
    /\ pc' = [pc EXCEPT ![t] = "try_check"]
    /\ UNCHANGED <<m_stack, m_condVar, heap, alive, nextVal, cur, data, out, ret,
                   opsLeft, hist>>

\* (faulty variant) tryPop that resets the caller's element before reporting "empty"
TryPopCheckClobbers(t) ==
    LET s == cur[t].self IN
    /\ pc[t] = "try_check"
    /\ IF Empty(s)
       THEN /\ m_mutex' = [m_mutex EXCEPT ![s] = Free]
            /\ out' = [out EXCEPT ![t] = MovedFrom]
            /\ Return(t, [status |-> IF cur[t].form = "ref" THEN "false" ELSE "null",
                          slot |-> NullPtr])
       ELSE /\ pc' = [pc EXCEPT ![t] = "try_take"]
            /\ UNCHANGED <<m_mutex, ret, out>>
    /\ UNCHANGED <<m_stack, m_condVar, heap, alive, nextVal, cur, data,
                   opsLeft, hist>>

\* if (m_stack.empty()) return false;  /  return std::shared_ptr<AdaptElem>{};
TryPopCheck(t) ==
    LET s == cur[t].self IN
    /\ pc[t] = "try_check"
    /\ IF Empty(s)
       THEN /\ m_mutex' = [m_mutex EXCEPT ![s] = Free]
            /\ Return(t, [status |-> IF cur[t].form = "ref" THEN "false" ELSE "null",
                          slot |-> NullPtr])
       ELSE /\ pc' = [pc EXCEPT ![t] = "try_take"]
            /\ UNCHANGED <<m_mutex, ret>>
    /\ UNCHANGED <<m_stack, m_condVar, heap, alive, nextVal, cur, data, out,
                   opsLeft, hist>>

TryPopTake(t) ==
    /\ pc[t] = "try_take"
    /\ IF cur[t].form = "ref" THEN TakeRef(t, "true") ELSE TakePtr(t, "ptr")
    /\ UNCHANGED <<m_condVar, alive, nextVal, cur, opsLeft>>

\* --------------------------------------------------------------------- pop
PopCall(t, s, form) ==
    /\ s \in alive
    /\ Begin(t, Call("pop", s, 0, form, 0), "pop_lock")
    /\ UNCHANGED <<m_stack, m_mutex, m_condVar, heap, alive, nextVal, hist>>

PopLock(t) ==
    /\ pc[t] = "pop_lock"
    /\ Acquire(t, cur[t].self)
    /\ pc' = [pc EXCEPT ![t] = "pop_check"]
    /\ UNCHANGED <<m_stack, m_condVar, heap, alive, nextVal, cur, data, out, ret,
                   opsLeft, hist>>

\* (faulty variant) pop that returns instead of throwing
PopCheckReturns(t) ==
    LET s == cur[t].self IN
    /\ pc[t] = "pop_check"
    /\ IF Empty(s)
       THEN /\ m_mutex' = [m_mutex EXCEPT ![s] = Free]
            /\ Return(t, [status |-> "null", slot |-> NullPtr])
       ELSE /\ pc' = [pc EXCEPT ![t] = "pop_take"]
            /\ UNCHANGED <<m_mutex, ret>>
    /\ UNCHANGED <<m_stack, m_condVar, heap, alive, nextVal, cur, data, out,
                   opsLeft, hist>>

\* if (m_stack.empty()) throw std::runtime_error("The ThreadSafeStack is empty");
PopCheck(t) ==
    LET s == cur[t].self IN
    /\ pc[t] = "pop_check"
    /\ IF Empty(s)
       THEN /\ m_mutex' = [m_mutex EXCEPT ![s] = Free]
            /\ Return(t, [status |-> "EmptyContainer", slot |-> NullPtr])
       ELSE /\ pc' = [pc EXCEPT ![t] = "pop_take"]
            /\ UNCHANGED <<m_mutex, ret>>
    /\ UNCHANGED <<m_stack, m_condVar, heap, alive, nextVal, cur, data, out,
                   opsLeft, hist>>

PopTake(t) ==
    /\ pc[t] = "pop_take"
    /\ IF cur[t].form = "ref" THEN TakeRef(t, "void") ELSE TakePtr(t, "ptr")
    /\ UNCHANGED <<m_condVar, alive, nextVal, cur, opsLeft>>

\* ------------------------------------------------ whole-container helpers
\* A control block is destroyed with its last handle: the handles are those in
\* the sequences `stk`, the callee locals and the ones callers were given.
Referenced(k, stk) ==
    \/ \E s \in Stacks : CountIn(stk[s], k) > 0
    \/ \E t \in Threads : data[t] = k
    \/ HandedOut(k)

Sweep(stk) ==
    [k \in DOMAIN heap |-> IF Referenced(k, stk) THEN heap[k] ELSE Freed]

\* std::scoped_lock lock(m_mutex, rhs.m_mutex) is std::lock(m_mutex, rhs.m_mutex):
\* lock one mutex, try_lock the other, and on failure release the first and
\* start again from the mutex that was busy.  A thread never blocks on one
\* mutex while it owns the other.
Other(t) == IF cur[t].first = cur[t].self THEN cur[t].rhs ELSE cur[t].self

ScopedLockFirst(t) ==
    /\ pc[t] = "dl_first"
    /\ Acquire(t, cur[t].first)
    /\ pc' = [pc EXCEPT ![t] = "dl_try"]
    /\ UNCHANGED <<m_stack, m_condVar, heap, alive, nextVal, cur, data, out, ret,
                   opsLeft, hist>>

\* (faulty variant) lock the second mutex with a plain blocking lock()
ScopedLockSecondBlocking(t) ==
    /\ pc[t] = "dl_try"
    /\ Acquire(t, Other(t))
    /\ pc' = [pc EXCEPT ![t] = "body"]
    /\ UNCHANGED <<m_stack, m_condVar, heap, alive, nextVal, cur, data, out, ret,
                   opsLeft, hist>>

\* (faulty variant) go on without the second mutex
ScopedLockSecondSkipped(t) ==
    /\ pc[t] = "dl_try"
    /\ pc' = [pc EXCEPT ![t] = "body"]
    /\ UNCHANGED <<m_stack, m_mutex, m_condVar, heap, alive, nextVal, cur, data,
                   out, ret, opsLeft, hist>>

ScopedLockSecond(t) ==
    /\ pc[t] = "dl_try"
    /\ IF m_mutex[Other(t)] = Free
       THEN /\ m_mutex' = [m_mutex EXCEPT ![Other(t)] = t]
            /\ pc' = [pc EXCEPT ![t] = "body"]
            /\ UNCHANGED cur
       ELSE /\ m_mutex' = [m_mutex EXCEPT ![cur[t].first] = Free]
            /\ cur' = [cur EXCEPT ![t].first = Other(t)]
            /\ pc' = [pc EXCEPT ![t] = "dl_first"]
    /\ UNCHANGED <<m_stack, m_condVar, heap, alive, nextVal, data, out, ret,
                   opsLeft, hist>>

\* Both lock guards of a two-stack operation go out of scope.
UnlockBoth(t) ==
    m_mutex' = [m_mutex EXCEPT ![cur[t].self] = Free, ![cur[t].rhs] = Free]

\* if (this != &rhs) fails: the call returns at once, nothing is locked.
SelfCall(t, fn, s) ==
    /\ s \in alive
    /\ pc[t] = "idle"
    /\ opsLeft[t] > 0
    /\ opsLeft' = [opsLeft EXCEPT ![t] = @ - 1]
    /\ cur' = [cur EXCEPT ![t] = Call(fn, s, s, "none", 0)]
    /\ ret' = [ret EXCEPT ![t] = [status |-> "void", slot |-> NullPtr]]
    /\ out' = [out EXCEPT ![t] = Untouched]
    /\ data' = [data EXCEPT ![t] = NullPtr]
    /\ UNCHANGED <<m_stack, m_mutex, m_condVar, heap, alive, nextVal, pc, hist>>

\* (faulty variant) no `this != &rhs` test
TwoStackCallUnchecked(t, fn, s, r) ==
    /\ s \in alive
    /\ r \in alive
    /\ Begin(t, Call(fn, s, r, "none", 0), "dl_first")
    /\ UNCHANGED <<m_stack, m_mutex, m_condVar, heap, alive, nextVal, hist>>

TwoStackCall(t, fn, s, r) ==
    /\ s \in alive
    /\ r \in alive
    /\ IF s = r
       THEN SelfCall(t, fn, s)
       ELSE /\ Begin(t, Call(fn, s, r, "none", 0), "dl_first")
            /\ UNCHANGED <<m_stack, m_mutex, m_condVar, heap, alive, nextVal,
                           hist>>

\* One step of the element-wise copy `m_stack = rhs.m_stack` (the container's
\* copy assignment): element i+1 of the source is copied over element i+1 of
\* the destination, or appended to it; after the last one the destination's
\* surplus elements are erased.
CopyElement(t) ==
    LET d == cur[t].self
        r == cur[t].rhs
        i == cur[t].i
        dst == m_stack[d]
    IN IF i < Len(m_stack[r])
       THEN IF i < Len(dst)
            THEN [dst EXCEPT ![i + 1] = m_stack[r][i + 1]]
            ELSE Append(dst, m_stack[r][i + 1])
       ELSE SubSeq(dst, 1, i)

CopyDone(t) == cur[t].i >= Len(m_stack[cur[t].rhs])

\* --------------------------------------------------------- copy assignment
CopyAssignCall(t, s, r) == TwoStackCall(t, "copyAssign", s, r)

CopyAssignBody(t) ==
    LET d == cur[t].self
        stk == [m_stack EXCEPT ![d] = CopyElement(t)]
    IN /\ pc[t] = "body"
       /\ cur[t].fn = "copyAssign"
       /\ m_stack' = stk
       /\ heap' = Sweep(stk)
       /\ IF CopyDone(t)
          THEN /\ UnlockBoth(t)
               /\ Return(t, [status |-> "void", slot |-> NullPtr])
               /\ UNCHANGED cur
          ELSE /\ cur' = [cur EXCEPT ![t].i = @ + 1]
               /\ UNCHANGED <<m_mutex, pc, ret>>
       /\ UNCHANGED <<m_condVar, alive, nextVal, data, out, opsLeft, hist>>

\* --------------------------------------------------------- move assignment
MoveAssignCall(t, s, r) == TwoStackCall(t, "moveAssign", s, r)

\* (faulty variant) a move assignment that leaves the source as it was
MoveAssignBodyKeepsSource(t) ==
    LET d == cur[t].self
        r == cur[t].rhs
        stk == [m_stack EXCEPT ![d] = m_stack[r]]
    IN /\ pc[t] = "body"
       /\ cur[t].fn = "moveAssign"
       /\ m_stack' = stk
       /\ heap' = Sweep(stk)
       /\ UnlockBoth(t)
       /\ Return(t, [status |-> "void", slot |-> NullPtr])
       /\ UNCHANGED <<m_condVar, alive, nextVal, cur, data, out, opsLeft, hist>>

\* m_stack = std::move(rhs.m_stack): the destination takes over the source's
\* storage and the source is left empty.
MoveAssignBody(t) ==
    LET d == cur[t].self
        r == cur[t].rhs
        stk == [m_stack EXCEPT ![d] = m_stack[r], ![r] = <<>>]
    IN /\ pc[t] = "body"
       /\ cur[t].fn = "moveAssign"
       /\ m_stack' = stk
       /\ heap' = Sweep(stk)
       /\ UnlockBoth(t)
       /\ Return(t, [status |-> "void", slot |-> NullPtr])
       /\ UNCHANGED <<m_condVar, alive, nextVal, cur, data, out, opsLeft, hist>>

\* -------------------------------------------------------------------- swap
SwapCall(t, s, r) == TwoStackCall(t, "swap", s, r)

\* The free function swap(lhs, rhs): lhs.swap(rhs).
FreeSwapCall(t, l, r) == SwapCall(t, l, r)

\* (faulty variant) a swap that overwrites one side and leaves the other
SwapBodyOneWay(t) ==
    LET d == cur[t].self
        r == cur[t].rhs
    IN /\ pc[t] = "body"
       /\ cur[t].fn = "swap"
       /\ m_stack' = [m_stack EXCEPT ![d] = m_stack[r]]
       /\ UnlockBoth(t)
       /\ Return(t, [status |-> "void", slot |-> NullPtr])
       /\ UNCHANGED <<m_condVar, heap, alive, nextVal, cur, data, out, opsLeft,
                      hist>>

\* std::swap(m_stack, rhs.m_stack)
SwapBody(t) ==
    LET d == cur[t].self
        r == cur[t].rhs
    IN /\ pc[t] = "body"
       /\ cur[t].fn = "swap"
       /\ m_stack' = [m_stack EXCEPT ![d] = m_stack[r], ![r] = m_stack[d]]
       /\ UnlockBoth(t)
       /\ Return(t, [status |-> "void", slot |-> NullPtr])
       /\ UNCHANGED <<m_condVar, heap, alive, nextVal, cur, data, out, opsLeft,
                      hist>>

\* ------------------------------------------------- copy / move construction
\* The object under construction is NewStack; no other thread can reach it
\* before the constructor returns.
CopyCtorCall(t, r) ==
    /\ r \in alive
    /\ NewStack \notin alive
    /\ \A u \in Threads : cur[u].self = NewStack => pc[u] = "idle"
    /\ Begin(t, Call("copyCtor", NewStack, r, "none", 0), "ctor_lock")
    /\ UNCHANGED <<m_stack, m_mutex, m_condVar, heap, alive, nextVal, hist>>

MoveCtorCall(t, r) ==
    /\ r \in alive
    /\ NewStack \notin alive
    /\ \A u \in Threads : cur[u].self = NewStack => pc[u] = "idle"
    /\ Begin(t, Call("moveCtor", NewStack, r, "none", 0), "ctor_lock")
    /\ UNCHANGED <<m_stack, m_mutex, m_condVar, heap, alive, nextVal, hist>>

\* (faulty variant) a constructor that reads the source without locking it
CtorLockNone(t) ==
    /\ pc[t] = "ctor_lock"
    /\ pc' = [pc EXCEPT ![t] = "ctor_body"]
    /\ UNCHANGED <<m_stack, m_mutex, m_condVar, heap, alive, nextVal, cur, data,
                   out, ret, opsLeft, hist>>

\* std::lock_guard<std::mutex> lock(rhs.m_mutex);
CtorLock(t) ==
    /\ pc[t] = "ctor_lock"
    /\ Acquire(t, cur[t].rhs)
    /\ pc' = [pc EXCEPT ![t] = "ctor_body"]
    /\ UNCHANGED <<m_stack, m_condVar, heap, alive, nextVal, cur, data, out, ret,
                   opsLeft, hist>>

CopyCtorBody(t) ==
    LET d == cur[t].self
        stk == [m_stack EXCEPT ![d] = CopyElement(t)]
    IN /\ pc[t] = "ctor_body"
       /\ cur[t].fn = "copyCtor"
       /\ m_stack' = stk
       /\ IF CopyDone(t)
          THEN /\ m_mutex' = [m_mutex EXCEPT ![cur[t].rhs] = Free]
               /\ alive' = alive \cup {d}
               /\ Return(t, [status |-> "void", slot |-> NullPtr])
               /\ UNCHANGED cur
          ELSE /\ cur' = [cur EXCEPT ![t].i = @ + 1]
               /\ UNCHANGED <<m_mutex, alive, pc, ret>>
       /\ UNCHANGED <<m_condVar, heap, nextVal, data, out, opsLeft, hist>>

MoveCtorBody(t) ==
    LET d == cur[t].self
        r == cur[t].rhs
    IN /\ pc[t] = "ctor_body"
       /\ cur[t].fn = "moveCtor"
       /\ m_stack' = [m_stack EXCEPT ![d] = m_stack[r], ![r] = <<>>]
       /\ m_mutex' = [m_mutex EXCEPT ![r] = Free]
       /\ alive' = alive \cup {d}
       /\ Return(t, [status |-> "void", slot |-> NullPtr])
       /\ UNCHANGED <<m_condVar, heap, nextVal, cur, data, out, opsLeft, hist>>

\* =========================================================================
\* One stack, several threads: pushes and every form of removal.
\* =========================================================================
S1 == 1
\* The threads that run under this specification.
Pair == {1, 2}

InitOneStack ==
    /\ InitState
    /\ opsLeft = [t \in Threads |-> IF t = 1 THEN MaxOps ELSE IF t = 2 THEN 2 ELSE 0]

PushSteps(t) ==
    \/ PushAlloc(t)
    \/ PushAllocFail(t)
    \/ PushLock(t)
    \/ PushBody(t)
    \/ PushBodyFail(t)
    \/ PushNotify(t)

WaitAndPopSteps(t) ==
    \/ WaitAndPopLock(t)
    \/ WaitAndPopWait(t)
    \/ SpuriousWake(t)
    \/ WaitAndPopTake(t)

TryPopSteps(t) ==
    \/ TryPopLock(t)
    \/ TryPopCheck(t)
    \/ TryPopTake(t)

PopSteps(t) ==
    \/ PopLock(t)
    \/ PopCheck(t)
    \/ PopTake(t)

TwoStackSteps(t) ==
    \/ ScopedLockFirst(t)
    \/ ScopedLockSecond(t)
    \/ CopyAssignBody(t)
    \/ MoveAssignBody(t)
    \/ SwapBody(t)

CtorSteps(t) ==
    \/ CtorLock(t)
    \/ CopyCtorBody(t)
    \/ MoveCtorBody(t)

NextOneStack ==
    \E t \in Pair :
        \/ PushCall(t, S1)
        \/ PushSteps(t)
        \/ \E f \in Forms : WaitAndPopCall(t, S1, f)
        \/ WaitAndPopSteps(t)
        \/ \E f \in Forms : TryPopCall(t, S1, f)
        \/ TryPopSteps(t)
        \/ \E f \in Forms : PopCall(t, S1, f)
        \/ PopSteps(t)

SpecOneStack == InitOneStack /\ [][NextOneStack]_vars

\* ---------------------------------------------------- history vocabulary
RemovalFns == {"waitAndPop", "tryPop", "pop"}

IsPush(e) == e.ev = "push"
IsRm(e) == e.ev = "rm"

\* The values an ideal LIFO stack holds after the first n events of h.
RECURSIVE Replay(_, _)
Replay(h, n) ==
    IF n = 0 THEN <<>>
    ELSE LET before == Replay(h, n - 1)
         IN IF IsPush(h[n]) THEN Append(before, h[n].val)
            ELSE SubSeq(before, 1, Len(before) - 1)

\* The element values held by the sequence of stack s, bottom first.
Values(s) == [i \in 1..Len(m_stack[s]) |-> heap[m_stack[s][i]]]

Count(P(_), h) == Cardinality({i \in 1..Len(h) : P(h[i])})

\* What the caller of a finished removal holds: the value assigned to its
\* output location, or the element its handle points to.
Received(t) == IF cur[t].form = "ref" THEN out[t] ELSE heap[ret[t].slot]

\* The index in hist of the thread's latest removal.
LastRmBy(t) ==
    CHOOSE i \in 1..Len(hist) :
        /\ IsRm(hist[i]) /\ hist[i].t = t
        /\ \A j \in (i + 1)..Len(hist) : ~(IsRm(hist[j]) /\ hist[j].t = t)

\* C1: LIFO order.  Every removal, in whatever form, yields the value of the
\* most recently pushed element that has not been removed yet, and the
\* sequence holds exactly the pushed, not yet removed values in push order; so
\* n pushes p1..pn followed by n removals yield pn, ..., p1.
C1_LifoOrder ==
    /\ \A i \in 1..Len(hist) :
          IsRm(hist[i]) =>
              LET before == Replay(hist, i - 1)
              IN before # <<>> /\ hist[i].val = before[Len(before)]
    /\ Values(S1) = Replay(hist, Len(hist))
    /\ \A t \in Threads :
          (pc[t] = "idle" /\ ret[t].status \in {"void", "true", "ptr"}
                         /\ cur[t].fn \in RemovalFns) =>
              Received(t) = hist[LastRmBy(t)].val

\* Two pushes by one thread, then two removals: the second value comes out
\* first.
C1_Witness ==
    /\ Len(hist) = 4
    /\ IsPush(hist[1]) /\ IsPush(hist[2]) /\ hist[1].t = hist[2].t
    /\ IsRm(hist[3]) /\ IsRm(hist[4])
    /\ hist[3].val = hist[2].val /\ hist[4].val = hist[1].val
    /\ hist[3].fn # hist[4].fn /\ hist[3].form # hist[4].form

PushedTimes(v) == Count(LAMBDA e : IsPush(e) /\ e.val = v, hist)
DeliveredTimes(v) == Count(LAMBDA e : IsRm(e) /\ e.val = v, hist)
HeldTimes(s, v) == Cardinality({i \in 1..Len(m_stack[s]) : Values(s)[i] = v})

\* C2: no loss, no duplication.  In every state each pushed value is either
\* still in the sequence or has been delivered, exactly once in total, and
\* nothing is delivered that was not pushed.
C2_NoLossNoDup ==
    \A v \in 1..MaxPush :
        /\ PushedTimes(v) <= 1
        /\ PushedTimes(v) = HeldTimes(S1, v) + DeliveredTimes(v)

\* Two producers have pushed and the stack has been drained with tryPop.
C2_Witness ==
    /\ Empty(S1)
    /\ \A t \in Threads : pc[t] = "idle"
    /\ \E i, j \in 1..Len(hist) :
          IsPush(hist[i]) /\ IsPush(hist[j]) /\ hist[i].t # hist[j].t
    /\ Count(IsRm, hist) = 2
    /\ \A i \in 1..Len(hist) : IsRm(hist[i]) => hist[i].fn = "tryPop"

NoElement(t) == IF cur[t].form = "ref" THEN "false" ELSE "null"

\* C8: tryPop fails fast on empty.  When tryPop, holding the lock, finds the
\* sequence empty, its next step returns the no-element indicator, leaves the
\* sequence and the caller's output location as they were and releases the
\* lock; tryPop never raises an error and never waits on the condition
\* variable.
C8_TryPopFailsFast ==
    [][\A t \in Threads :
          /\ (pc[t] = "try_check" /\ pc'[t] # "try_check" /\ Empty(cur[t].self)) =>
                /\ pc'[t] = "idle"
                /\ ret'[t] = [status |-> NoElement(t), slot |-> NullPtr]
                /\ m_stack' = m_stack
                /\ hist' = hist
                /\ out'[t] = Untouched
                /\ m_mutex'[cur[t].self] = Free
          /\ cur'[t].fn = "tryPop" =>
                /\ ret'[t].status \notin {"EmptyContainer", "AllocationFailure"}
                /\ \A s \in Stacks : t \notin m_condVar'[s]
                /\ pc'[t] \notin {"wap_asleep", "wap_relock"}]_vars

\* Both forms of tryPop have reported "no element".
C8_Witness ==
    \E t, u \in Threads :
        /\ cur[t].fn = "tryPop" /\ ret[t].status = "false" /\ out[t] = Untouched
        /\ cur[u].fn = "tryPop" /\ ret[u].status = "null"

\* =========================================================================
\* Blocked consumers and one producer on one stack: threads 1 and 2 each call
\* waitAndPop once, thread 3 calls push once.
\* =========================================================================
Waiters == {1, 2}
Producers == {3}

InitWake ==
    /\ InitState
    /\ opsLeft = [t \in Threads |-> 1]

NextWake ==
    \/ \E t \in Waiters :
          \/ \E f \in Forms : WaitAndPopCall(t, S1, f)
          \/ WaitAndPopSteps(t)
    \/ \E t \in Producers :
          \/ PushCall(t, S1)
          \/ PushSteps(t)

\* The steps a running thread takes by itself; a spurious wakeup is not one
\* of them.
Running(t) ==
    \/ PushSteps(t)
    \/ WaitAndPopLock(t) \/ WaitAndPopWait(t) \/ WaitAndPopTake(t)
    \/ TryPopSteps(t)
    \/ PopSteps(t)
    \/ TwoStackSteps(t)
    \/ CtorSteps(t)

SpecWake ==
    InitWake /\ [][NextWake]_vars /\ \A t \in Threads : WF_vars(Running(t))

\* The waiters whose waitAndPop has returned.
Served == {t \in Waiters : cur[t].fn = "waitAndPop" /\ pc[t] = "idle"}

AllAsleepAtPush == Len(hist) >= 1 /\ IsPush(hist[1]) /\ hist[1].asleep = Waiters

\* C4: one push releases exactly one waiter.  Never more waiters return than
\* the one push that took place, the one that returns holds the pushed
\* element, and when the push found all waiters blocked one of them does
\* return; the other one never does.
C4_OnePushOneWaiter ==
    /\ [](/\ Cardinality(Served) <= Count(IsPush, hist)
          /\ Cardinality(Served) <= 1
          /\ \A t \in Served : Received(t) = hist[1].val)
    /\ (AllAsleepAtPush ~> Cardinality(Served) = 1)

\* The push found both waiters blocked; one has returned with the element and
\* the other is blocked in wait().
C4_Witness ==
    /\ AllAsleepAtPush
    /\ \A t \in Producers : pc[t] = "idle"
    /\ \E t \in Waiters :
          /\ Served = {t}
          /\ Received(t) = hist[1].val
          /\ \A u \in Waiters \ {t} : pc[u] = "wap_asleep" /\ u \in m_condVar[S1]

\* =========================================================================
\* A blocked consumer, a producer and a competing consumer on one stack:
\* thread 1 calls waitAndPop once, thread 2 pushes, thread 3 calls tryPop or
\* pop once.
\* =========================================================================
InitServe ==
    /\ InitState
    /\ opsLeft = [t \in Threads |-> IF t = 2 THEN MaxOps ELSE 1]

NextServe ==
    \/ \E f \in Forms : WaitAndPopCall(1, S1, f)
    \/ WaitAndPopSteps(1)
    \/ PushCall(2, S1)
    \/ PushSteps(2)
    \/ \E f \in Forms : TryPopCall(3, S1, f)
    \/ TryPopSteps(3)
    \/ \E f \in Forms : PopCall(3, S1, f)
    \/ PopSteps(3)

SpecServe ==
    InitServe /\ [][NextServe]_vars /\ \A t \in Threads : WF_vars(Running(t))

InWaitAndPop(t) ==
    pc[t] \in {"wap_lock", "wap_wait", "wap_asleep", "wap_relock", "wap_take"}

TakenBy(v) == {hist[i].t : i \in {j \in 1..Len(hist) : IsRm(hist[j]) /\ hist[j].val = v}}

\* C5: no lost wakeup.  Whenever thread 1 is inside waitAndPop and a pushed
\* element v is in the sequence, thread 1 eventually returns, unless another
\* consumer removes v; what it returns with is an element that was pushed.
C5_NoLostWakeup ==
    /\ \A v \in 1..MaxPush :
          (InWaitAndPop(1) /\ HeldTimes(S1, v) = 1)
              ~> (pc[1] = "idle" \/ TakenBy(v) \ {1} # {})
    /\ [](pc[1] = "idle" /\ cur[1].fn = "waitAndPop" =>
              /\ PushedTimes(Received(1)) = 1
              /\ TakenBy(Received(1)) = {1})

\* Thread 1 was blocked in wait() when the element was pushed, and has
\* returned with it.
C5_Witness ==
    /\ Len(hist) = 2
    /\ IsPush(hist[1]) /\ hist[1].asleep = {1}
    /\ pc[1] = "idle" /\ cur[1].fn = "waitAndPop"
    /\ Received(1) = hist[1].val

\* =========================================================================
\* Two stacks: threads 1 and 2 assign and swap them in both directions while
\* thread 3 pushes and removes.
\* =========================================================================
\* The sequences of stacks 1 and 2 when the threads start: what earlier pushes
\* (of the values 1, 2, in this order) have left behind.
Prefilled ==
    { <<<<>>, <<>>>>, <<<<1, 2>>, <<>>>>, <<<<1>>, <<2>>>> }

InitPrefilled(configs, ops) ==
    \E c \in configs :
        LET n == Len(c[1]) + Len(c[2]) IN
        /\ m_stack = [s \in Stacks |-> IF s \in {1, 2} THEN c[s] ELSE <<>>]
        /\ heap = [k \in 1..n |-> k]
        /\ hist = [k \in 1..n |-> PushEvent(0, IF k \in {c[1][i] : i \in 1..Len(c[1])}
                                                 THEN 1 ELSE 2, k, k, {})]
        /\ nextVal = n + 1
        /\ m_mutex = [s \in Stacks |-> Free]
        /\ m_condVar = [s \in Stacks |-> {}]
        /\ alive = Stacks \ {NewStack}
        /\ pc = [t \in Threads |-> "idle"]
        /\ cur = [t \in Threads |-> NoCall]
        /\ data = [t \in Threads |-> NullPtr]
        /\ out = [t \in Threads |-> Untouched]
        /\ ret = [t \in Threads |-> NoRet]
        /\ opsLeft = ops

InitTwoStacks ==
    InitPrefilled({<<<<1>>, <<2>>>>},
                  [t \in Threads |-> IF t = 1 THEN MaxCalls ELSE 1])

NextTwoStacks ==
    \/ \E t \in Pair :
          \/ \E s \in {1, 2} : CopyAssignCall(t, s, 3 - s)
          \/ \E s \in {1, 2} : MoveAssignCall(t, s, 3 - s)
          \/ \E s \in {1, 2} : SwapCall(t, s, 3 - s)
          \/ TwoStackSteps(t)
    \/ \E s \in {1, 2} : PushCall(3, s)
    \/ PushSteps(3)
    \/ \E s \in {1, 2} : TryPopCall(3, s, "ptr")
    \/ TryPopSteps(3)

SpecTwoStacks ==
    InitTwoStacks /\ [][NextTwoStacks]_vars /\ \A t \in Threads : WF_vars(Running(t))

\* The mutex a thread has to get before it can take its next step.
Wanted(t) ==
    CASE pc[t] = "dl_first" -> cur[t].first
      [] pc[t] = "dl_try" -> Other(t)
      [] pc[t] = "ctor_lock" -> cur[t].rhs
      [] OTHER -> cur[t].self

\* Thread t cannot move before somebody else releases mutex s.
WaitsFor(t, s) ==
    /\ pc[t] \notin {"idle", "wap_asleep"}
    /\ ~ENABLED Running(t)
    /\ Wanted(t) = s

CircularWait ==
    \E t, u \in Threads : \E a, b \in Stacks :
        /\ t # u /\ a # b
        /\ m_mutex[a] = t /\ WaitsFor(t, b)
        /\ m_mutex[b] = u /\ WaitsFor(u, a)

TwoStackFns == {"copyAssign", "moveAssign", "swap"}

\* C6: two-stack operations are deadlock-free.  No state has two threads each
\* holding one mutex and waiting for the one the other holds, and eventually
\* every call that was started has returned.
C6_NoDeadlock ==
    /\ []~CircularWait
    /\ <>[](\A t \in Threads : pc[t] = "idle")

\* Both threads have finished a two-stack operation on the same pair of
\* stacks in opposite directions, after each had locked one mutex first.
C6_Witness ==
    /\ \A t \in Pair : pc[t] = "idle" /\ cur[t].fn \in TwoStackFns
    /\ cur[1].self = cur[2].rhs /\ cur[1].rhs = cur[2].self
    /\ cur[1].self # cur[1].rhs
    /\ cur[1].first # cur[1].self \/ cur[2].first # cur[2].self

\* =========================================================================
\* Copies: thread 1 pushes onto stack 1 and copies it (assignment to stack 2,
\* construction of stack 3); thread 2 removes from any stack.
\* =========================================================================
InitCopy ==
    /\ InitState
    /\ opsLeft = [t \in Threads |-> IF t \in Pair THEN 2 ELSE 0]

NextCopy ==
    \/ PushCall(1, S1)
    \/ PushSteps(1)
    \/ CopyAssignCall(1, 2, S1)
    \/ CopyCtorCall(1, S1)
    \/ ScopedLockFirst(1) \/ ScopedLockSecond(1) \/ CopyAssignBody(1)
    \/ CtorLock(1) \/ CopyCtorBody(1)
    \/ \E s \in Stacks, f \in Forms : TryPopCall(2, s, f)
    \/ TryPopSteps(2)
    \/ \E s \in Stacks, f \in Forms : PopCall(2, s, f)
    \/ PopSteps(2)

SpecCopy == InitCopy /\ [][NextCopy]_vars

\* C3: exactly-once delivery of Slots.  No Slot (control block) is handed to
\* consumers by more than one removal.
C3_ExactlyOnce ==
    \A k \in DOMAIN heap :
        Count(LAMBDA e : IsRm(e) /\ e.slot = k, hist) <= 1

\* =========================================================================
\* The general specification: every public operation, on every stack.
\* =========================================================================
Init ==
    InitPrefilled(Prefilled,
                  [t \in Threads |-> IF t = 1 THEN MaxCalls
                                     ELSE IF t = 2 THEN 1 ELSE 0])

Next ==
    \E t \in Pair :
        \/ \E s \in Stacks : PushCall(t, s)
        \/ PushSteps(t)
        \/ \E s \in Stacks, f \in Forms : WaitAndPopCall(t, s, f)
        \/ WaitAndPopSteps(t)
        \/ \E s \in Stacks, f \in Forms : TryPopCall(t, s, f)
        \/ TryPopSteps(t)
        \/ \E s \in Stacks, f \in Forms : PopCall(t, s, f)
        \/ PopSteps(t)
        \/ \E s, r \in Stacks : CopyAssignCall(t, s, r)
        \/ \E s, r \in Stacks : MoveAssignCall(t, s, r)
        \/ \E s, r \in Stacks : SwapCall(t, s, r)
        \/ \E r \in Stacks : CopyCtorCall(t, r)
        \/ \E r \in Stacks : MoveCtorCall(t, r)
        \/ TwoStackSteps(t)
        \/ CtorSteps(t)

Spec == Init /\ [][Next]_vars

CopyFns == {"copyAssign", "copyCtor"}

\* C7: a copy is an atomic snapshot.  While a copy assignment or copy
\* construction is copying, the source sequence does not change, and when it
\* returns the destination equals the source, in the same order, with nothing
\* left of what the destination held before.
C7_CopySnapshot ==
    [][\A t \in Threads :
          (pc[t] \in {"body", "ctor_body"} /\ cur[t].fn \in CopyFns) =>
              /\ m_stack'[cur[t].rhs] = m_stack[cur[t].rhs]
              /\ pc'[t] = "idle" => m_stack'[cur[t].self] = m_stack[cur[t].rhs]]_vars

\* Stack 1 held element 1 and stack 2 element 2; a push onto stack 2 and the
\* copy assignment stack1 = stack2 have both run, and stack 1 is the
\* two-element sequence of stack 2.
C7_Witness ==
    \E t, u \in Threads :
        /\ cur[t].fn = "copyAssign" /\ pc[t] = "idle"
        /\ cur[t].self = 1 /\ cur[t].rhs = 2
        /\ cur[u].fn = "push" /\ cur[u].self = 2 /\ ret[u].status = "void"
        /\ hist[1].stack = 1
        /\ m_stack[1] = m_stack[2] /\ Len(m_stack[1]) = 2

\* C9: pop raises EmptyContainer exactly on empty.  The step pop takes after
\* locking raises EmptyContainer if and only if the sequence is empty, then
\* leaving the sequence unchanged and the mutex free; pop never waits on the
\* condition variable; no other operation raises EmptyContainer.
C9_PopRaisesOnEmpty ==
    [][\A t \in Threads :
          /\ (pc[t] = "pop_check" /\ pc'[t] # "pop_check") =>
                /\ ret'[t].status = "EmptyContainer" <=> Empty(cur[t].self)
                /\ Empty(cur[t].self) =>
                      /\ pc'[t] = "idle"
                      /\ m_stack' = m_stack
                      /\ hist' = hist
                      /\ m_mutex'[cur[t].self] = Free
          /\ ret'[t].status = "EmptyContainer" => cur'[t].fn = "pop"
          /\ cur'[t].fn = "pop" =>
                /\ \A s \in Stacks : t \notin m_condVar'[s]
                /\ pc'[t] \notin {"wap_asleep", "wap_relock"}]_vars

\* One pop has raised EmptyContainer on an empty stack, another pop has
\* returned an element.
C9_Witness ==
    \E t, u \in Threads :
        /\ ret[t].status = "EmptyContainer" /\ pc[t] = "idle"
        /\ Empty(cur[t].self) /\ m_mutex[cur[t].self] = Free
        /\ cur[u].fn = "pop" /\ ret[u].status \in {"ptr", "void"} /\ pc[u] = "idle"

\* C10: self-operations are no-ops.  A copy assignment, move assignment or
\* swap of a stack with itself returns in the step that calls it: no mutex is
\* touched and every sequence is as before.
C10_SelfNoOp ==
    [][\A t \in Threads :
          (cur'[t].fn \in TwoStackFns /\ cur'[t].self = cur'[t].rhs) =>
              /\ pc'[t] = "idle"
              /\ ret'[t].status = "void"
              /\ opsLeft'[t] # opsLeft[t] =>
                    /\ m_stack' = m_stack
                    /\ m_mutex' = m_mutex
                    /\ heap' = heap]_vars

\* A stack holding two elements has been move-assigned to itself and another
\* one swapped with itself.
C10_Witness ==
    \E t, u \in Threads :
        /\ cur[t].fn = "moveAssign" /\ cur[t].self = cur[t].rhs /\ pc[t] = "idle"
        /\ Len(m_stack[cur[t].self]) = 2
        /\ cur[u].fn = "swap" /\ cur[u].self = cur[u].rhs /\ pc[u] = "idle"

\* C11: a failed push leaves no trace.  When wrapping the element fails, the
\* call returns the failure in that very step; every sequence, every mutex,
\* the set of blocked waiters and the position of every other thread are as
\* before; and the push held no mutex at any time before the failure.
C11_FailedPushNoTrace ==
    [][\A t \in Threads :
          /\ (pc[t] = "push_alloc" /\ ret'[t].status = "AllocationFailure") =>
                /\ pc'[t] = "idle"
                /\ m_stack' = m_stack
                /\ m_mutex' = m_mutex
                /\ m_condVar' = m_condVar
                /\ heap' = heap
                /\ hist' = hist
                /\ \A u \in Threads \ {t} : pc'[u] = pc[u]
          /\ pc[t] = "push_alloc" => \A s \in Stacks : m_mutex[s] # t]_vars

\* The push has failed in make_shared while both waiters were blocked in
\* wait(); they still are, and the stack is empty.
C11_Witness ==
    /\ \E t \in Producers :
          /\ cur[t].fn = "push" /\ pc[t] = "idle"
          /\ ret[t].status = "AllocationFailure"
    /\ heap = <<>>
    /\ m_condVar[S1] = Waiters
    /\ Empty(S1) /\ m_mutex[S1] = Free

\* =========================================================================
\* One stack whose element type has a move assignment that can throw: thread 1
\* pushes, thread 2 removes in every form.
\* =========================================================================
InitThrow ==
    /\ InitState
    /\ opsLeft = [t \in Threads |-> IF t = 1 THEN MaxOps ELSE IF t = 2 THEN 2 ELSE 0]

NextThrow ==
    \/ PushCall(1, S1)
    \/ PushSteps(1)
    \/ \E f \in Forms : WaitAndPopCall(2, S1, f)
    \/ WaitAndPopSteps(2)
    \/ \E f \in Forms : TryPopCall(2, S1, f)
    \/ TryPopSteps(2)
    \/ \E f \in Forms : PopCall(2, S1, f)
    \/ PopSteps(2)
    \/ TakeRefThrows(2)

SpecThrow == InitThrow /\ [][NextThrow]_vars

RemovalFailures == {"EmptyContainer", "ElementFailure"}

\* C12: strong exception safety of removal.  The step in which a removal
\* fails leaves the sequence with the same Slots in the same order, and every
\* Slot with the element value it had.
C12_RemovalStrongSafety ==
    [][\A t \in Threads :
          (pc[t] # "idle" /\ cur[t].fn \in RemovalFns
                          /\ ret'[t].status \in RemovalFailures) =>
              /\ m_stack' = m_stack
              /\ \A k \in DOMAIN heap : heap'[k] = heap[k]]_vars

\* =========================================================================
\* A blocked consumer and whole-container operations: stack 1 is empty and
\* stack 2 holds one element; thread 1 calls waitAndPop on stack 1, thread 2
\* assigns or swaps the two stacks once, thread 3 pushes once.
\* =========================================================================
InitRefill ==
    InitPrefilled({<<<<>>, <<1>>>>}, [t \in Threads |-> 1])

NextRefill ==
    \/ \E f \in Forms : WaitAndPopCall(1, S1, f)
    \/ WaitAndPopSteps(1)
    \/ \E s \in {1, 2} : CopyAssignCall(2, s, 3 - s)
    \/ \E s \in {1, 2} : MoveAssignCall(2, s, 3 - s)
    \/ \E s \in {1, 2} : SwapCall(2, s, 3 - s)
    \/ TwoStackSteps(2)
    \/ \E s \in {1, 2} : PushCall(3, s)
    \/ PushSteps(3)

SpecRefill ==
    InitRefill /\ [][NextRefill]_vars /\ \A t \in Threads : WF_vars(Running(t))

\* C13: a waiter is released whenever its stack becomes non-empty.  Whenever
\* thread 1 is inside waitAndPop on stack 1 and the sequence of stack 1 is
\* non-empty, by a push, an assignment or a swap, thread 1 eventually returns
\* (or the sequence is emptied again by somebody else).
C13_WaiterReleased ==
    (InWaitAndPop(1) /\ ~Empty(S1)) ~> (pc[1] = "idle" \/ Empty(S1))

\* C14: waitAndPop never removes from an empty sequence.  A thread holding
\* the lock in wait() that finds the sequence empty releases the lock and
\* blocks, however it was woken; it reaches the removal only with the lock
\* held and the sequence non-empty; and what it returns with is the element
\* that was on top of the sequence in the step that removed it.
C14_WaitAndPopNeverEmpty ==
    [][\A t \in Threads :
          LET s == cur[t].self IN
          /\ (pc[t] = "wap_wait" /\ pc'[t] # "wap_wait") =>
                IF Empty(s)
                THEN /\ pc'[t] = "wap_asleep"
                     /\ t \in m_condVar'[s]
                     /\ m_mutex'[s] = Free
                     /\ hist' = hist
                ELSE pc'[t] = "wap_take"
          /\ pc'[t] = "wap_take" => m_stack'[s] # <<>> /\ m_mutex'[s] = t
          /\ (pc[t] = "wap_take" /\ pc'[t] = "idle") =>
                /\ m_stack[s] # <<>>
                /\ m_stack'[s] = Popped(s)
                /\ hist' = Append(hist, RmEvent(t, s, Top(s)))
                /\ (IF cur[t].form = "ref" THEN out'[t] ELSE heap'[ret'[t].slot])
                       = heap[Top(s)]]_vars

\* Thread 1 was blocked at the first push; thread 3 took that element; thread
\* 1, woken, found the sequence empty and was blocked again at the second
\* push, whose element it has returned with.
C14_Witness ==
    /\ Len(hist) = 4
    /\ IsPush(hist[1]) /\ hist[1].asleep = {1}
    /\ IsRm(hist[2]) /\ hist[2].t = 3 /\ hist[2].slot = hist[1].slot
    /\ IsPush(hist[3]) /\ hist[3].asleep = {1}
    /\ IsRm(hist[4]) /\ hist[4].t = 1 /\ hist[4].slot = hist[3].slot
    /\ pc[1] = "idle" /\ Received(1) = hist[3].val

\* The program positions at which a thread's next step reads or writes the
\* sequence of stack s.
Accessing(t, s) ==
    \/ /\ pc[t] \in {"push_body", "wap_wait", "wap_take", "try_check", "try_take",
                      "pop_check", "pop_take"}
       /\ cur[t].self = s
    \/ pc[t] = "body" /\ s \in {cur[t].self, cur[t].rhs}
    \/ pc[t] = "ctor_body" /\ s = cur[t].rhs

\* The positions at which a thread is inside the scope of a lock on s.
InCritical(t, s) ==
    \/ Accessing(t, s)
    \/ pc[t] = "dl_try" /\ s = cur[t].first

\* The sequence of s is part-way through an element-wise copy made by t.
Torn(t, s) ==
    /\ pc[t] = "body" /\ cur[t].fn = "copyAssign"
    /\ cur[t].self = s /\ cur[t].i > 0

Steps(t) == <<pc[t], cur[t]>>' # <<pc[t], cur[t]>>

\* C15: lock discipline.  No two threads are inside the scope of a lock on
\* the same stack, a thread inside such a scope owns that mutex, the sequence
\* of a constructed stack changes only in a step of a thread that is inside
\* the scope of its lock (of both locks in assignments and swap), and while a
\* sequence is part-way through a copy no other thread is at a position that
\* reads or writes it.
C15_LockDiscipline ==
    [][\A s \in Stacks :
          LET inside == {t \in Threads : InCritical(t, s)} IN
          /\ \A t \in inside : inside = {t} /\ m_mutex[s] = t
          /\ (s \in alive /\ m_stack'[s] # m_stack[s]) =>
                \E t \in inside :
                    /\ Accessing(t, s) /\ Steps(t)
                    /\ pc[t] = "body" =>
                          m_mutex[cur[t].self] = t /\ m_mutex[cur[t].rhs] = t
          /\ \A t \in inside :
                Torn(t, s) => \A u \in Threads : Accessing(u, s) => u = t]_vars

\* A copy assignment into stack 2 has copied one of two elements; the other
\* thread has called a removal on stack 2 and is waiting for its mutex.
C15_Witness ==
    \E t, u \in Threads :
        /\ Torn(t, 2) /\ m_stack[2] # m_stack[cur[t].rhs]
        /\ m_mutex[1] = t /\ m_mutex[2] = t
        /\ pc[u] \in {"wap_lock", "try_lock", "pop_lock"} /\ cur[u].self = 2

\* The threads of SpecWake under fair scheduling of the mutex as well: a
\* thread blocked in the lock_guard constructor of push gets the mutex when it
\* is released again and again.
SpecProduce ==
    /\ InitWake /\ [][NextWake]_vars
    /\ \A t \in Threads : WF_vars(Running(t)) /\ SF_vars(PushLock(t))

InPush(t) == pc[t] \in {"push_alloc", "push_lock", "push_body", "push_notify"}

\* C16: blocked consumers never starve producers.  A thread blocked in
\* wait() owns no mutex; a push, once called, returns, whatever number of
\* consumers is blocked in waitAndPop on the stack; a thread inside push is
\* never among the threads waiting on the condition variable.
C16_ProducersNotStarved ==
    /\ [](\A t \in Threads :
             /\ pc[t] = "wap_asleep" => \A s \in Stacks : m_mutex[s] # t
             /\ InPush(t) => \A s \in Stacks : t \notin m_condVar[s])
    /\ \A t \in Producers : InPush(t) ~> pc[t] = "idle"

\* The push has gone through (the element is in the sequence, nobody has
\* been notified yet) while both waiters are blocked in wait().
C16_Witness ==
    \E t \in Producers :
        /\ pc[t] = "push_notify"
        /\ m_condVar[S1] = Waiters
        /\ \A w \in Waiters : pc[w] = "wap_asleep"
        /\ Len(m_stack[S1]) = 1 /\ m_mutex[S1] = Free

\* The value slot k was pushed with.
PushedVal(k) ==
    hist[CHOOSE j \in 1..Len(hist) : IsPush(hist[j]) /\ hist[j].slot = k].val

\* C17: copies are independent.  Whatever was removed before from the stack
\* an element was copied from or copied to, a removal delivers the value its
\* element was pushed with.
C17_CopiesIndependent ==
    \A i \in 1..Len(hist) :
        IsRm(hist[i]) => hist[i].val = PushedVal(hist[i].slot)

\* =========================================================================
\* Moves: thread 1 move-assigns stacks 1 and 2 to each other or
\* move-constructs stack 3 from one of them, thread 2 pushes, thread 3 removes
\* from any stack.
\* =========================================================================
InitMove ==
    InitPrefilled({<<<<1>>, <<2>>>>},
                  [t \in Threads |-> IF t = 1 THEN MaxCalls ELSE IF t = 2 THEN 1 ELSE 2])

NextMove ==
    \/ \E s \in {1, 2} : MoveAssignCall(1, s, 3 - s)
    \/ \E r \in {1, 2} : MoveCtorCall(1, r)
    \/ ScopedLockFirst(1) \/ ScopedLockSecond(1) \/ MoveAssignBody(1)
    \/ CtorLock(1) \/ MoveCtorBody(1)
    \/ \E s \in {1, 2} : PushCall(2, s)
    \/ PushSteps(2)
    \/ \E s \in Stacks, f \in Forms : TryPopCall(3, s, f)
    \/ TryPopSteps(3)
    \/ \E s \in Stacks, f \in Forms : PopCall(3, s, f)
    \/ PopSteps(3)

SpecMove == InitMove /\ [][NextMove]_vars

MoveFns == {"moveAssign", "moveCtor"}

\* C18: a move relocates without duplicating.  The step in which a move
\* assignment or move construction takes place makes the destination the
\* source's sequence of that instant, in the same order, and leaves the source
\* with none of its Slots; no Slot is ever held by two sequences or twice by
\* one, and no Slot is delivered by more than one removal.
C18_MoveRelocates ==
    /\ [][\A t \in Threads :
             (pc[t] \in {"body", "ctor_body"} /\ cur[t].fn \in MoveFns
                                              /\ Steps(t)) =>
                 /\ pc'[t] = "idle"
                 /\ m_stack'[cur[t].self] = m_stack[cur[t].rhs]
                 /\ m_stack'[cur[t].rhs] = <<>>
                 /\ hist' = hist]_vars
    /\ [](\A k \in DOMAIN heap :
             /\ SumOver(Stacks, k) <= 1
             /\ Count(LAMBDA e : IsRm(e) /\ e.slot = k, hist)
                   + SumOver(Stacks, k) <= 1)

\* Stack 1 held element 1 and stack 2 element 2.  A push onto stack 1 and the
\* move assignment stack2 = std::move(stack1) have run: element 2 is gone, the
\* pushed element has been removed from stack 2, which still holds element 1,
\* and a pop on stack 1 has found it empty.
C18_Witness ==
    /\ cur[1].fn = "moveAssign" /\ cur[1].self = 2 /\ cur[1].rhs = 1
    /\ pc[1] = "idle"
    /\ Empty(1) /\ m_stack[2] = <<1>> /\ heap[2] = Freed
    /\ hist[Len(hist)].ev = "rm" /\ hist[Len(hist)].stack = 2
    /\ hist[Len(hist)].val = 3
    /\ cur[3].self = 1 /\ ret[3].status = "EmptyContainer"

\* =========================================================================
\* Swaps: thread 1 swaps stacks 1 and 2 (member or free function), thread 2
\* pushes once, thread 3 removes once.
\* =========================================================================
SwapBudget == MaxCalls + 1

InitSwap ==
    InitPrefilled({<<<<1>>, <<2>>>>, <<<<1, 2>>, <<>>>>},
                  [t \in Threads |-> IF t = 1 THEN SwapBudget ELSE 1])

NextSwap ==
    \/ \E s \in {1, 2} : SwapCall(1, s, 3 - s)
    \/ \E s \in {1, 2} : FreeSwapCall(1, s, 3 - s)
    \/ ScopedLockFirst(1) \/ ScopedLockSecond(1) \/ SwapBody(1)
    \/ \E s \in {1, 2} : PushCall(2, s)
    \/ PushSteps(2)
    \/ \E s \in {1, 2}, f \in Forms : WaitAndPopCall(3, s, f)
    \/ WaitAndPopSteps(3)
    \/ \E s \in {1, 2}, f \in Forms : TryPopCall(3, s, f)
    \/ TryPopSteps(3)
    \/ \E s \in {1, 2}, f \in Forms : PopCall(3, s, f)
    \/ PopSteps(3)

SpecSwap == InitSwap /\ [][NextSwap]_vars

\* The Slots that were pushed onto stack s, in the order of the pushes.
PushedOnto(s) ==
    LET on == SelectSeq(hist, LAMBDA e : IsPush(e) /\ e.stack = s)
    IN [i \in 1..Len(on) |-> on[i].slot]

\* Thread 1 has finished n swaps and no other thread has called anything.
OnlySwaps(n) ==
    /\ \A t \in Threads : pc[t] = "idle"
    /\ opsLeft[1] = SwapBudget - n
    /\ \A t \in Threads \ {1} : opsLeft[t] = 1

\* C19: swap exchanges atomically.  The step in which swap takes place, both
\* mutexes owned, makes each of the two sequences what the other was and
\* changes nothing else; at all times every pushed value is in exactly one of
\* the two sequences or was delivered exactly once; and with no other
\* operation in between, one swap leaves each stack with what was pushed onto
\* the other and a second swap restores both.
C19_SwapExchanges ==
    /\ [][\A t \in Threads :
             (pc[t] = "body" /\ cur[t].fn = "swap" /\ Steps(t)) =>
                 /\ pc'[t] = "idle"
                 /\ m_mutex[cur[t].self] = t /\ m_mutex[cur[t].rhs] = t
                 /\ m_stack'[cur[t].self] = m_stack[cur[t].rhs]
                 /\ m_stack'[cur[t].rhs] = m_stack[cur[t].self]
                 /\ heap' = heap /\ hist' = hist]_vars
    /\ [](\A v \in 1..MaxPush :
             /\ PushedTimes(v) <= 1
             /\ PushedTimes(v) = HeldTimes(1, v) + HeldTimes(2, v) + DeliveredTimes(v))
    /\ [](/\ OnlySwaps(1) => \A s \in {1, 2} : m_stack[s] = PushedOnto(3 - s)
          /\ OnlySwaps(2) => \A s \in {1, 2} : m_stack[s] = PushedOnto(s))

\* Stack 1 held two elements and stack 2 none; two swaps and nothing else
\* have run and stack 1 holds its two elements in the same order again.
C19_Witness ==
    /\ OnlySwaps(2)
    /\ cur[1].fn = "swap"
    /\ Len(m_stack[1]) = 2 /\ m_stack[1] = PushedOnto(1)
    /\ Empty(2)

\* =========================================================================
\* Shared elements: stack 1 holds one element; threads 1 and 2 copy stack 1
\* (assignment to stack 2, construction of stack 3) and remove from any
\* stack, two calls each.
\* =========================================================================
InitShared ==
    InitPrefilled({<<<<1>>, <<>>>>}, [t \in Threads |-> IF t \in Pair THEN 2 ELSE 0])

NextShared ==
    \E t \in Pair :
        \/ CopyAssignCall(t, 2, S1)
        \/ CopyCtorCall(t, S1)
        \/ ScopedLockFirst(t) \/ ScopedLockSecond(t) \/ CopyAssignBody(t)
        \/ CtorLock(t) \/ CopyCtorBody(t)
        \/ \E s \in Stacks, f \in Forms : TryPopCall(t, s, f)
        \/ TryPopSteps(t)
        \/ \E s \in Stacks, f \in Forms : PopCall(t, s, f)
        \/ PopSteps(t)

SpecShared == InitShared /\ [][NextShared]_vars

\* Thread t is at the statement elem = std::move(*m_stack.top()), which reads
\* and writes the element of Slot k.
MovesFrom(t, k) ==
    /\ pc[t] \in {"wap_take", "try_take", "pop_take"}
    /\ cur[t].form = "ref"
    /\ Top(cur[t].self) = k

\* C20: no unsynchronized access to a stored element.  No two threads are at
\* the same time at the statement that moves the value out of the same
\* element unless they own a common mutex.
C20_NoElementRace ==
    \A t, u \in Threads : \A k \in DOMAIN heap :
        (t # u /\ MovesFrom(t, k) /\ MovesFrom(u, k)) =>
            \E s \in Stacks : m_mutex[s] = t /\ m_mutex[s] = u

====
